---- MODULE Spec2Model ----
(***************************************************************************)
(* State-machine model of the event processing pipeline of the Odoo        *)
(* integration adapter: the event envelope and its SQLite store, the       *)
(* external-id registry kept in Odoo's ir.model.data, the dispatch         *)
(* service, the ingestion queue with its worker loop, the retry sweep and  *)
(* the orchestrator's start/stop.                                          *)
(*                                                                         *)
(* Strings that the code formats, splits or compares (external ids) are    *)
(* sequences of tokens, so that formatting and splitting are computed.     *)
(* Every asyncio suspension point is a step boundary: the aiosqlite calls  *)
(* suspend, the XML-RPC calls of the Odoo client are blocking calls, so    *)
(* the connector section of one dispatch runs without interleaving.        *)
(***************************************************************************)
EXTENDS Integers, Sequences, FiniteSets, TLC

\* Bounds of the model.
MaxBatchEvents == 2
MaxDeliveries == 2
MaxSweeps == 3
MaxRetriesBound == 1
MaxCleanups == 2
MaxSyncRecords == 2
MaxStarts == 2
MaxCalls == 2
MaxHandled == 2

\* Python's None; str(None) is the token "None".
None == "None"

(***************************************************************************)
(* Event envelope                                                          *)
(***************************************************************************)
EventIds == {"e1", "e2", "e3"}

EventType == {"Create", "Update", "Delete", "Sync"}

\* erp_name values as token sequences; the second one contains a dot.
ErpA == <<"erpA">>
ErpB == <<"erp", ".", "B">>
Inst == <<"inst1">>

SourceSystem(erp) == [erp_name |-> erp, instance_id |-> Inst]

\* event.source_system is None.
NoSourceSystem == [erp_name |-> << >>, instance_id |-> << >>]

EntityType == {"Product", "User", "Store", "Invoice", "Shift", "ZetaReport"}

\* payload.data besides its 'id': the 'name' and 'price' entries, None when the
\* key is absent. Prices are the texts of the values.
PayloadData(name, price) == [name |-> name, price |-> price]

\* has_context: event.context is a Context object; retry_count lives in it.
\* plain: neither payload.metadata nor context.header is set.
\* The entity is a Product with a name and a price unless stated otherwise.
IntegrationEvent(id, type, src, pid, ctx, plain) ==
    [event_id |-> id, event_type |-> type, source_system |-> src,
     entity_type |-> "Product", data |-> PayloadData("Widget", "10"),
     payload_id |-> pid, has_context |-> ctx, retry_count |-> 0, plain |-> plain,
     timestamp |-> IF id = "e1" THEN 1 ELSE IF id = "e2" THEN 2 ELSE 3]

\* The frame of a task that holds no envelope.
NoEvent == IntegrationEvent("none", "None", NoSourceSystem, None, FALSE, TRUE)

\* The envelopes the transports and callers hand to the pipeline.
EnvelopeList ==
    << IntegrationEvent("e1", "Create", SourceSystem(ErpA), "P1", TRUE, TRUE),
       IntegrationEvent("e2", "Update", SourceSystem(ErpA), "P1", TRUE, TRUE),
       IntegrationEvent("e1", "Create", SourceSystem(ErpA), "P1", TRUE, FALSE),
       IntegrationEvent("e3", "Sync", SourceSystem(ErpB), "P1", FALSE, TRUE),
       IntegrationEvent("e2", "Create", SourceSystem(ErpB), "P1", FALSE, TRUE),
       IntegrationEvent("e3", "Update", SourceSystem(ErpB), "P1", TRUE, TRUE),
       IntegrationEvent("e3", "Create", NoSourceSystem, "P1", FALSE, TRUE),
       IntegrationEvent("e1", "Delete", SourceSystem(ErpB), "P1", TRUE, TRUE) >>

Envelopes == { EnvelopeList[i] : i \in DOMAIN EnvelopeList }

\* Payloads: complete, without 'name', with a negative price, with a price
\* that is not a number.
Payloads ==
    { PayloadData("Widget", "10"), PayloadData(None, "10"),
      PayloadData("Widget", "-1"), PayloadData("Widget", "abc") }

\* Envelopes of every kind of entity and event over these payloads.
PayloadEnvelopes ==
    { [IntegrationEvent("e1", type, SourceSystem(ErpB), "P1", TRUE, TRUE)
          EXCEPT !.entity_type = entity, !.data = data] :
      type \in EventType, entity \in EntityType, data \in Payloads }

\* The envelopes the transports deliver: a Create and an Update of the list.
TransportEnvelopes == { EnvelopeList[1], EnvelopeList[2] }

(***************************************************************************)
(* Event store (SQLite table integration_events)                           *)
(***************************************************************************)
DefaultDbPath == "integration_events.db"
OtherDbPath == "other.db"
DbPaths == {DefaultDbPath, OtherDbPath}

\* json.dumps(obj.__dict__) raises on a nested MetaData or Header object.
Serialisable(ev) == ev.plain

Row(ev, status) == [status |-> status, error_message |-> None, event |-> ev]

\* The table is kept as the rows of each event_id, in rowid order.
EmptyTable == [id \in EventIds |-> << >>]

\* INSERT OR REPLACE under UNIQUE(event_id): the conflicting rows are deleted,
\* then the new row is inserted.
InsertKeepingOld(rows, row) == Append(rows, row)

InsertOrReplace(rows, row) ==
    Append(SelectSeq(rows, LAMBDA r : r.event.event_id # row.event.event_id), row)

\* save_event: returns <<table, ok>>.
save_event(table, ev) ==
    IF Serialisable(ev)
    THEN <<[table EXCEPT ![ev.event_id] = InsertOrReplace(@, Row(ev, "pending"))], TRUE>>
    ELSE <<table, FALSE>>

\* UPDATE ... SET status = ? WHERE event_id = ?
_update_event_status(table, id, status) ==
    [table EXCEPT ![id] = [i \in DOMAIN @ |-> [@[i] EXCEPT !.status = status]]]

mark_event_as_processed(table, id) == _update_event_status(table, id, "processed")

\* The statement has three placeholders and is given four bindings: sqlite3
\* raises ProgrammingError, the except clause returns False, no row changes.
mark_event_as_failed(table, id, message) == table

AllRows(table) == UNION { { table[id][i] : i \in DOMAIN table[id] } : id \in DOMAIN table }

\* The sequences that list every element of S once, by timestamp descending
\* (ORDER BY timestamp DESC; rows of equal timestamp come in either order).
\* get_failed_events(limit=100), get_pending_events(limit=100)
PageSize == 100

\* The timestamps of the rows are 1..LastStamp.
LastStamp == PageSize + 1

RECURSIVE AnyOrder(_)
AnyOrder(S) ==
    IF S = {} THEN { << >> }
    ELSE UNION { { <<r>> \o rest : rest \in AnyOrder(S \ {r}) } : r \in S }

\* The rows of S with a timestamp in lo..hi, newest first.
RECURSIVE OrderDescIn(_, _, _)
OrderDescIn(S, lo, hi) ==
    IF lo = hi
    THEN AnyOrder({ r \in S : r.event.timestamp = lo })
    ELSE { newer \o older :
             newer \in OrderDescIn(S, (lo + hi) \div 2 + 1, hi),
             older \in OrderDescIn(S, lo, (lo + hi) \div 2) }

OrderDesc(S) == OrderDescIn(S, 1, LastStamp)

\* ORDER BY timestamp ASC.
RECURSIVE OrderAsc(_)
OrderAsc(S) ==
    IF S = {} THEN { << >> }
    ELSE UNION { { <<r>> \o rest : rest \in OrderAsc(S \ {r}) } :
                 r \in { x \in S : \A y \in S : x.event.timestamp <= y.event.timestamp } }

Take(seq, n) == SubSeq(seq, 1, IF Len(seq) < n THEN Len(seq) ELSE n)

\* _row_to_event over a result list.
RowsToEvents(rows) == [i \in DOMAIN rows |-> rows[i].event]

\* get_failed_events(limit): the possible result lists.
get_failed_events(table, limit) ==
    { RowsToEvents(Take(l, limit)) :
        l \in OrderDesc({ r \in AllRows(table) : r.status = "failed" }) }

\* get_pending_events(limit): the possible result lists.
get_pending_events(table, limit) ==
    { RowsToEvents(Take(l, limit)) :
        l \in OrderAsc({ r \in AllRows(table) : r.status = "pending" }) }

\* The datetime of the envelope with timestamp index n: from_dict parses the
\* transport's text, 'Z' becoming '+00:00' (an aware datetime); the third is naive.
Stamp(n) ==
    CASE n = 1 -> [sec |-> 1, micro |-> 0, aware |-> TRUE]
      [] n = 2 -> [sec |-> 1, micro |-> 5, aware |-> TRUE]
      [] OTHER -> [sec |-> 2, micro |-> 0, aware |-> FALSE]

\* datetime.isoformat(): the microseconds are left out when zero, the offset
\* is appended for an aware datetime.
\* The characters of an ISO text in byte order: '+' < '.' < '0' < ... < '9'.
CharOrder == <<"+", ".", "0", "1", "2", "3", "4", "5", "6", "7", "8", "9">>

Digit(n) == CharOrder[n + 3]

isoformat(dt) ==
    <<Digit(dt.sec)>> \o (IF dt.micro = 0 THEN << >> ELSE <<".", Digit(dt.micro)>>)
                      \o (IF dt.aware THEN <<"+", "0", "0">> ELSE << >>)

CharRank(c) == CHOOSE i \in DOMAIN CharOrder : CharOrder[i] = c

\* SQLite's comparison of two TEXT values (memcmp, the shorter first on a tie).
RECURSIVE TextLess(_, _)
TextLess(a, b) ==
    IF b = << >> THEN FALSE
    ELSE IF a = << >> THEN TRUE
    ELSE IF CharRank(Head(a)) # CharRank(Head(b)) THEN CharRank(Head(a)) < CharRank(Head(b))
    ELSE TextLess(Tail(a), Tail(b))

\* A cleanup that deletes the old rows of every status.
CleanupAnyStatus(table, older_than) ==
    << [id \in EventIds |->
          SelectSeq(table[id], LAMBDA r :
              ~ TextLess(isoformat(Stamp(r.event.timestamp)), isoformat(older_than)))],
       Cardinality({ r \in AllRows(table) :
              TextLess(isoformat(Stamp(r.event.timestamp)), isoformat(older_than)) }) >>

\* cleanup_old_events: DELETE ... WHERE timestamp < ? AND status = 'processed';
\* <<table, cursor.rowcount>>.
cleanup_old_events(table, older_than) ==
    << [id \in EventIds |->
          SelectSeq(table[id], LAMBDA r :
              ~ ( /\ TextLess(isoformat(Stamp(r.event.timestamp)), isoformat(older_than))
                  /\ r.status = "processed" ))],
       Cardinality({ r \in AllRows(table) :
              /\ TextLess(isoformat(Stamp(r.event.timestamp)), isoformat(older_than))
              /\ r.status = "processed" }) >>

(***************************************************************************)
(* Target connector (Odoo over XML-RPC) and the external-id registry       *)
(***************************************************************************)
\* The connector's state: the live records of the target model, the id the
\* next create returns, and the rows of ir.model.data.
EmptyOdoo == [records |-> {}, next_id |-> 1, imd |-> {}]

Underscore == <<"_">>
Dot == <<".">>

\* f"{erp_name}_{instance_id}_{id}"
FormatExternalId(src, id) ==
    src.erp_name \o Underscore \o src.instance_id \o Underscore \o <<id>>

\* data.get('id', event.event_id) and data.get('id')
CreateKeyId(ev) == IF ev.payload_id = None THEN ev.event_id ELSE ev.payload_id
LookupKeyId(ev) == ev.payload_id

HasDot(s) == \E i \in DOMAIN s : s[i] = "."
FirstDot(s) == CHOOSE i \in DOMAIN s : s[i] = "." /\ \A j \in 1..(i - 1) : s[j] # "."

\* external_id.split('.', 1), or module '__import__' when there is no dot.
SplitExternalId(external_id) ==
    IF HasDot(external_id)
    THEN [module |-> SubSeq(external_id, 1, FirstDot(external_id) - 1),
          name |-> SubSeq(external_id, FirstDot(external_id) + 1, Len(external_id))]
    ELSE [module |-> <<"__import__">>, name |-> external_id]

\* ir.model.data's complete_name is module + '.' + name.
complete_name(row) == row.module \o Dot \o row.name

\* create_record on the target model: <<connector state, record id>>; id 0 on failure.
create_record(o, ok) ==
    IF ok
    THEN <<[o EXCEPT !.records = @ \cup {o.next_id}, !.next_id = @ + 1], o.next_id>>
    ELSE <<o, 0>>

\* write on a record that no longer exists raises in Odoo.
update_record_ok(o, record_id, ok) == ok /\ record_id \in o.records

delete_record(o, record_id, ok) ==
    IF ok THEN [o EXCEPT !.records = @ \ {record_id}] ELSE o

\* set_external_id: one ir.model.data row; the caller discards the outcome.
set_external_id(o, record_id, external_id, ok) ==
    IF ok
    THEN [o EXCEPT !.imd = @ \cup {[module |-> SplitExternalId(external_id).module,
                                     name |-> SplitExternalId(external_id).name,
                                     res_id |-> record_id]}]
    ELSE o

\* find_by_external_id: search_read on complete_name = external_id, limit 1.
\* The record ids it can return; {} stands for None.
find_by_external_id(o, external_id) ==
    { r.res_id : r \in { x \in o.imd : complete_name(x) = external_id } }

\* What a lookup can yield: a match, or 0 (None) when nothing matches or the
\* search call fails (search_read returns [] on any exception).
Lookup(o, external_id, ok) ==
    IF ok /\ find_by_external_id(o, external_id) # {}
    THEN find_by_external_id(o, external_id)
    ELSE {0}

(***************************************************************************)
(* Field mapping tables and validation rules (config) and the mapping the  *)
(* dispatch service applies                                                *)
(***************************************************************************)
FieldMapping(source_field, target_field, required) ==
    [source_field |-> source_field, target_field |-> target_field, required |-> required]

\* OdooConfig.get_field_mappings: the rows on 'name' and 'price' and the
\* required rows of each table; no table for Shift and ZetaReport.
get_field_mappings(entity_type) ==
    CASE entity_type = "Product" -> { FieldMapping("name", "name", TRUE),
                                      FieldMapping("price", "list_price", FALSE) }
      [] entity_type = "User" -> { FieldMapping("name", "name", TRUE),
                                   FieldMapping("email", "login", TRUE) }
      [] entity_type = "Store" -> { FieldMapping("name", "name", TRUE) }
      [] entity_type = "Invoice" -> { FieldMapping("partner_id", "partner_id", TRUE) }
      [] OTHER -> {}

\* The payload keys the required rows of the entity's table read.
RequiredSourceFields(entity_type) ==
    { m.source_field : m \in { x \in get_field_mappings(entity_type) : x.required } }

\* The keys present in payload.data.
PayloadKeys(data) ==
    {"id"} \cup (IF data.name = None THEN {} ELSE {"name"})
           \cup (IF data.price = None THEN {} ELSE {"price"})

MissesRequired(ev) == RequiredSourceFields(ev.entity_type) \ PayloadKeys(ev.data) # {}

\* VALIDATION_RULES: list_price has min_value 0 for a Product.
ViolatesRule(ev) == ev.entity_type = "Product" /\ ev.data.price = "-1"

\* entity_model_mapping of IntegrationService: a model for all six kinds.
entity_model_mapping(entity_type) ==
    CASE entity_type = "Product" -> "product.template"
      [] entity_type = "User" -> "res.users"
      [] entity_type = "Store" -> "res.company"
      [] entity_type = "Invoice" -> "account.move"
      [] entity_type = "Shift" -> "hr.attendance"
      [] entity_type = "ZetaReport" -> "account.report"
      [] OTHER -> None

\* float(text): the text of the float, or ValueError.
float(text) ==
    CASE text = "10" -> "10.0"
      [] text = "-1" -> "-1.0"
      [] OTHER -> "ValueError"

Values(name, list_price, price) == [name |-> name, list_price |-> list_price, price |-> price]

NoValues == Values(None, None, None)

\* _map_values_to_odoo: the values passed to create_record and update_record;
\* for a kind without a mapping function the payload goes through as it is.
_map_values_to_odoo(ev) ==
    CASE ev.entity_type = "Product" ->
             Values(ev.data.name,
                    IF ev.data.price = None THEN None ELSE float(ev.data.price), None)
      [] ev.entity_type \in {"User", "Store"} -> Values(ev.data.name, None, None)
      [] ev.entity_type = "Invoice" -> NoValues
      [] OTHER -> Values(ev.data.name, None, ev.data.price)

\* float(data['price']) raises ValueError in _map_product_values.
MapRaises(ev) == _map_values_to_odoo(ev).list_price = "ValueError"

(***************************************************************************)
(* Dispatch service: _handle_event_by_type and its four handlers.          *)
(* Each handler yields the connector state it leaves and the result it     *)
(* returns; "raised" marks an exception that process_integration_event     *)
(* catches. calls lists the connector mutations issued.                    *)
(***************************************************************************)
Outcome(o, success, raised, message, record_id, calls, registered) ==
    [odoo |-> o, success |-> success, raised |-> raised, message |-> message,
     record_id |-> record_id, calls |-> calls, registered |-> registered]

_handle_create_event(o, ev, found, mutOk, regOk) ==
    LET c == create_record(o, mutOk)
    IN  IF MapRaises(ev)
        THEN Outcome(o, FALSE, TRUE, "exception", 0, {}, FALSE)
        ELSE IF c[2] = 0
        THEN Outcome(o, FALSE, FALSE, "connector failure", 0, {"create"}, FALSE)
        ELSE IF ev.source_system = NoSourceSystem
        THEN Outcome(c[1], FALSE, TRUE, "exception", 0, {"create"}, FALSE)
        ELSE Outcome(set_external_id(c[1], c[2],
                         FormatExternalId(ev.source_system, CreateKeyId(ev)), regOk),
                     TRUE, FALSE, "created", c[2], {"create"}, regOk)

\* An Update that creates the record when the key does not resolve.
UpdateCreatesOnMiss(o, ev, found, mutOk, regOk) ==
    IF ev.source_system = NoSourceSystem
    THEN Outcome(o, FALSE, TRUE, "exception", 0, {}, FALSE)
    ELSE IF found = 0
    THEN Outcome(create_record(o, TRUE)[1], TRUE, FALSE, "created",
                 create_record(o, TRUE)[2], {"create"}, FALSE)
    ELSE IF update_record_ok(o, found, mutOk)
    THEN Outcome(o, TRUE, FALSE, "updated", found, {"write"}, FALSE)
    ELSE Outcome(o, FALSE, FALSE, "connector failure", 0, {"write"}, FALSE)

_handle_update_event(o, ev, found, mutOk, regOk) ==
    IF ev.source_system = NoSourceSystem
    THEN Outcome(o, FALSE, TRUE, "exception", 0, {}, FALSE)
    ELSE IF found = 0
    THEN Outcome(o, FALSE, FALSE, "not found", 0, {}, FALSE)
    ELSE IF MapRaises(ev)
    THEN Outcome(o, FALSE, TRUE, "exception", 0, {}, FALSE)
    ELSE IF update_record_ok(o, found, mutOk)
    THEN Outcome(o, TRUE, FALSE, "updated", found, {"write"}, FALSE)
    ELSE Outcome(o, FALSE, FALSE, "connector failure", 0, {"write"}, FALSE)

_handle_delete_event(o, ev, found, mutOk, regOk) ==
    IF ev.source_system = NoSourceSystem
    THEN Outcome(o, FALSE, TRUE, "exception", 0, {}, FALSE)
    ELSE IF found = 0
    THEN Outcome(o, FALSE, FALSE, "not found", 0, {}, FALSE)
    ELSE IF mutOk
    THEN Outcome(delete_record(o, found, TRUE), TRUE, FALSE, "deleted", found, {"unlink"}, FALSE)
    ELSE Outcome(o, FALSE, FALSE, "connector failure", 0, {"unlink"}, FALSE)

\* A Sync that creates without looking at the result of the lookup.
SyncAlwaysCreates(o, ev, found, mutOk, regOk) ==
    _handle_create_event(o, ev, found, mutOk, regOk)

_handle_sync_event(o, ev, found, mutOk, regOk) ==
    IF ev.source_system = NoSourceSystem \/ MapRaises(ev)
    THEN Outcome(o, FALSE, TRUE, "exception", 0, {}, FALSE)
    ELSE IF found # 0
    THEN IF update_record_ok(o, found, mutOk)
         THEN Outcome(o, TRUE, FALSE, "updated", found, {"write"}, FALSE)
         ELSE Outcome(o, FALSE, FALSE, "connector failure", 0, {"write"}, FALSE)
    ELSE LET c == create_record(o, mutOk)
         IN  IF c[2] = 0
             THEN Outcome(o, FALSE, FALSE, "connector failure", 0, {"create"}, FALSE)
             ELSE Outcome(set_external_id(c[1], c[2],
                              FormatExternalId(ev.source_system, LookupKeyId(ev)), regOk),
                          TRUE, FALSE, "created", c[2], {"create"}, regOk)

_handle_event_by_type(o, ev, found, mutOk, regOk) ==
    IF entity_model_mapping(ev.entity_type) = None
    THEN Outcome(o, FALSE, FALSE, "unsupported entity", 0, {}, FALSE)
    ELSE
    CASE ev.event_type = "Create" -> _handle_create_event(o, ev, found, mutOk, regOk)
      [] ev.event_type = "Update" -> _handle_update_event(o, ev, found, mutOk, regOk)
      [] ev.event_type = "Delete" -> _handle_delete_event(o, ev, found, mutOk, regOk)
      [] ev.event_type = "Sync" -> _handle_sync_event(o, ev, found, mutOk, regOk)
      [] OTHER -> Outcome(o, FALSE, FALSE, "unsupported", 0, {}, FALSE)

\* The record ids the handler's find_by_external_id can return (0 is None);
\* Create does no lookup, and a missing source_system raises before it.
Found(o, ev, findOk) ==
    IF ev.event_type = "Create" \/ ev.source_system = NoSourceSystem
    THEN {0}
    ELSE Lookup(o, FormatExternalId(ev.source_system, LookupKeyId(ev)), findOk)

(***************************************************************************)
(* State                                                                   *)
(***************************************************************************)
VARIABLES
    db_path,        \* config['database']['path'] of the orchestrator's repository
    max_retries,    \* the max_retries the retry sweeps are called with
    store,          \* the integration_events table of each database file
    odoo,           \* the target connector's state
    disp,           \* per task: the frame of its process_integration_event call
    is_running,     \* IntegrationOrchestrator.is_running
    is_processing,  \* EventHandler._is_processing
    put_tasks,      \* queue_event tasks created by the transport callbacks, not yet run
    queue,          \* EventHandler._processing_queue
    unfinished,     \* the queue's count of items put and not yet task_done
    wpc,            \* per worker task: its position in start_processing
    opc,            \* position of the task that runs IntegrationOrchestrator.start
    spc,            \* position of the task that runs IntegrationOrchestrator.stop
    transports_on,  \* the transports are connected and deliver events
    pending_list,   \* process_pending_events: the events still to handle
    batch,          \* handle_batch_events: number of events of the running batch
    batches,        \* number of events submitted in batches
    sweep_list,     \* handle_retry_failed_events: the failed events still to examine
    sweep_results,  \* handle_retry_failed_events: the results dict
    sweeps,         \* number of retry sweeps started
    delivered,      \* number of envelopes the transports delivered
    sync_list,      \* handle_full_sync: the source records still to dispatch
    sync_results,   \* handle_full_sync: the results dict
    odoo_connected, \* OdooClientImpl._connected
    _tasks,         \* IntegrationOrchestrator._tasks: the background tasks
    hist            \* history of the run, read by the properties only

vars == <<db_path, max_retries, store, odoo, disp, is_running, is_processing,
          put_tasks, queue, unfinished, wpc, opc, spc, transports_on, pending_list,
          batch, batches, sweep_list, sweep_results, sweeps, delivered,
          sync_list, sync_results, odoo_connected, _tasks, hist>>

\* The worker tasks, in the order the calls of start() create them.
WorkerNames == <<"worker", "worker2", "worker3">>

Workers == { WorkerNames[i] : i \in 1..MaxStarts }

\* The tasks of the run that can be inside process_integration_event.
Tasks == DOMAIN disp

(***************************************************************************)
(* process_integration_event, one frame per running call                   *)
(***************************************************************************)
IdleFrame ==
    [pc |-> "idle", event |-> NoEvent, saved |-> FALSE, success |-> FALSE,
     raised |-> FALSE, message |-> None, record_id |-> 0, calls |-> {},
     conn_ok |-> TRUE, registered |-> FALSE, marks |-> 0, prior |-> {},
     found |-> 0, made |-> 0, dup_key |-> FALSE, changed |-> FALSE,
     values |-> NoValues]

\* Targets of the Create dispatches that returned success for the source record of ev.
PriorTargets(ev) ==
    { c.record_id : c \in { x \in hist.create_done :
                              /\ x.source_system = ev.source_system
                              /\ x.key_id = ev.payload_id } }

NewFrame(ev) == [IdleFrame EXCEPT !.pc = "save", !.event = ev, !.prior = PriorTargets(ev)]

\* await self.event_repository.save_event(event); the return value is not read.
DSave(t) ==
    /\ disp[t].pc = "save"
    /\ LET r == save_event(store[db_path], disp[t].event)
       IN  /\ store' = [store EXCEPT ![db_path] = r[1]]
           /\ disp' = [disp EXCEPT ![t].pc = "handle", ![t].saved = r[2]]
           /\ hist' = IF r[2]
                      THEN [hist EXCEPT
                              !.last_saved[disp[t].event.event_id] = disp[t].event,
                              !.resaved = IF \E r0 \in AllRows(store[db_path]) :
                                                /\ r0.event.event_id = disp[t].event.event_id
                                                /\ r0.event # disp[t].event
                                          THEN @ \cup {disp[t].event.event_id}
                                          ELSE @]
                      ELSE hist
    /\ UNCHANGED <<odoo_connected, _tasks, sync_list, sync_results, db_path, max_retries, odoo, is_running, is_processing, put_tasks,
                   queue, unfinished, wpc, opc, spc, transports_on, pending_list,
                   batch, batches, sweep_list, sweep_results, sweeps, delivered>>

\* Every connector call begins with is_connected() and, when that fails,
\* connect(): a call that succeeds leaves _connected set, a call that fails
\* leaves it set (a fault answered by the server) or cleared (no connection).
\* Whether the last call made succeeded; with no call made, the probe of
\* process_integration_event itself decides, which may go either way.
LastCallOk(findMade, findOk, mutMade, mutOk, regMade, regOk) ==
    IF regMade THEN regOk
    ELSE IF mutMade THEN mutOk
    ELSE IF findMade THEN findOk
    ELSE FALSE

\* is_connected/connect and _handle_event_by_type: blocking XML-RPC calls, no
\* suspension point in between. Each connector call that is made may fail; the
\* outcome of a call that is not made is not drawn.
DHandle(t) ==
    /\ disp[t].pc = "handle"
    /\ \E findOk \in BOOLEAN, mutOk \in BOOLEAN, regOk \in BOOLEAN :
         \E found \in Found(odoo, disp[t].event, findOk) :
           LET ev == disp[t].event
               h == _handle_event_by_type(odoo, ev, found, mutOk, regOk)
               rid == h.odoo.next_id - 1
               made == h.odoo.next_id # odoo.next_id
               key == FormatExternalId(ev.source_system,
                          IF ev.event_type = "Create"
                          THEN CreateKeyId(ev) ELSE LookupKeyId(ev))
               findMade == ev.event_type # "Create" /\ ev.source_system # NoSourceSystem
               mutMade == h.calls # {}
               regMade == made /\ ev.source_system # NoSourceSystem
           IN  /\ findOk \/ findMade
               /\ mutOk \/ mutMade
               /\ regOk \/ regMade
               /\ odoo' = h.odoo
               /\ odoo_connected' \in
                      IF LastCallOk(findMade, findOk, mutMade, mutOk, regMade, regOk)
                      THEN {TRUE} ELSE BOOLEAN
               /\ disp' = [disp EXCEPT ![t].pc = "mark",
                                       ![t].success = h.success,
                                       ![t].raised = h.raised,
                                       ![t].message = h.message,
                                       ![t].record_id = h.record_id,
                                       ![t].calls = h.calls,
                                       ![t].registered = h.registered,
                                       ![t].conn_ok = findOk /\ mutOk /\ regOk,
                                       ![t].found = found,
                                       ![t].made = IF made THEN rid ELSE 0,
                                       ![t].changed = h.odoo # odoo,
                                       ![t].values =
                                           IF h.calls \cap {"create", "write"} # {}
                                           THEN _map_values_to_odoo(ev) ELSE NoValues,
                                       ![t].dup_key =
                                           /\ made
                                           /\ \E g \in hist.registered :
                                                  g.external_id = key]
               /\ hist' = [hist EXCEPT
                      !.created = IF made
                                  THEN @ \cup {[record_id |-> rid, event_id |-> ev.event_id,
                                                event_type |-> ev.event_type,
                                                source_system |-> ev.source_system,
                                                payload_id |-> ev.payload_id]}
                                  ELSE @,
                      !.registered = IF h.registered
                                     THEN @ \cup {[external_id |-> key, record_id |-> rid]}
                                     ELSE @]
    /\ UNCHANGED <<_tasks, sync_list, sync_results, db_path, max_retries, store, is_running, is_processing, put_tasks,
                   queue, unfinished, wpc, opc, spc, transports_on, pending_list,
                   batch, batches, sweep_list, sweep_results, sweeps, delivered>>

\* mark_event_as_processed on success, mark_event_as_failed otherwise (also from
\* the except clause); then the result is returned.
DMark(t) ==
    /\ disp[t].pc = "mark"
    /\ store' = [store EXCEPT ![db_path] =
                    IF disp[t].success
                    THEN mark_event_as_processed(@, disp[t].event.event_id)
                    ELSE mark_event_as_failed(@, disp[t].event.event_id, disp[t].message)]
    /\ disp' = [disp EXCEPT ![t].pc = "ret", ![t].marks = @ + 1]
    /\ UNCHANGED <<odoo_connected, _tasks, sync_list, sync_results, db_path, max_retries, odoo, is_running, is_processing, put_tasks,
                   queue, unfinished, wpc, opc, spc, transports_on, pending_list,
                   batch, batches, sweep_list, sweep_results, sweeps, delivered, hist>>

\* History kept when a call returns to its caller.
Returned(t) ==
    [hist EXCEPT
       !.create_done = IF disp[t].event.event_type = "Create" /\ disp[t].success
                       THEN @ \cup {[source_system |-> disp[t].event.source_system,
                                     key_id |-> CreateKeyId(disp[t].event),
                                     record_id |-> disp[t].record_id]}
                       ELSE @]

(***************************************************************************)
(* EventHandler.handle_batch_events                                        *)
(***************************************************************************)
BatchTasks(n) == IF n = 2 THEN {"b1", "b2"} ELSE IF n = 1 THEN {"b1"} ELSE {}

\* One task per event: asyncio.create_task(self.handle_event(event)). The tasks
\* run interleaved, so a batch of two is submitted in one order only.
BatchSubmit ==
    /\ batch = 0
    /\ \E n \in 1..2 : \E i \in DOMAIN EnvelopeList, j \in DOMAIN EnvelopeList :
         /\ batches + n <= MaxBatchEvents
         /\ i <= j
         /\ n = 1 => i = j
         /\ batch' = n
         /\ batches' = batches + n
         /\ disp' = [disp EXCEPT !["b1"] = NewFrame(EnvelopeList[i]),
                                 !["b2"] = IF n = 2 THEN NewFrame(EnvelopeList[j]) ELSE @]
    /\ UNCHANGED <<odoo_connected, _tasks, sync_list, sync_results, db_path, max_retries, store, odoo, is_running, is_processing,
                   put_tasks, queue, unfinished, wpc, opc, spc, transports_on,
                   pending_list, sweep_list, sweep_results, sweeps, delivered, hist>>

\* handle_event logs the result and returns None.
BatchTaskDone(t) ==
    /\ t \in BatchTasks(batch)
    /\ disp[t].pc = "ret"
    /\ disp' = [disp EXCEPT ![t].pc = "done"]
    /\ hist' = Returned(t)
    /\ UNCHANGED <<odoo_connected, _tasks, sync_list, sync_results, db_path, max_retries, store, odoo, is_running, is_processing,
                   put_tasks, queue, unfinished, wpc, opc, spc, transports_on,
                   pending_list, batch, batches, sweep_list, sweep_results, sweeps,
                   delivered>>

\* A gather that returns as soon as one task has ended without success,
\* abandoning the others.
GatherStopsAtFailure(n) ==
    \/ \A t \in BatchTasks(n) : disp[t].pc = "done"
    \/ \E t \in BatchTasks(n) : disp[t].pc = "done" /\ ~disp[t].success

\* asyncio.gather(*tasks, return_exceptions=True) returns when every task is
\* done; no task is cancelled.
GatherReturns(n) == \A t \in BatchTasks(n) : disp[t].pc = "done"

\* The result of a handle_event task as gather returns it: handle_event
\* catches every exception and has no return statement.
HandleEventResult(frame) == None

\* success_count: the results that are not exception objects.
success_count(results) ==
    Cardinality({ t \in DOMAIN results : results[t] # "Exception" })

\* asyncio.gather(*tasks, return_exceptions=True) and the two counts.
BatchGather ==
    /\ batch > 0
    /\ GatherReturns(batch)
    /\ LET results == [t \in BatchTasks(batch) |-> HandleEventResult(disp[t])]
           error_count == Cardinality(DOMAIN results) - success_count(results)
       IN  hist' = [hist EXCEPT !.batch_report =
                       [total |-> batch,
                        success_count |-> success_count(results),
                        error_count |-> error_count,
                        succeeded |-> Cardinality({ t \in BatchTasks(batch) :
                                                     disp[t].success })]]
    /\ disp' = [t \in Tasks |-> IF t \in BatchTasks(batch) THEN IdleFrame ELSE disp[t]]
    /\ batch' = 0
    /\ UNCHANGED <<odoo_connected, _tasks, sync_list, sync_results, db_path, max_retries, store, odoo, is_running, is_processing,
                   put_tasks, queue, unfinished, wpc, opc, spc, transports_on,
                   pending_list, batches, sweep_list, sweep_results, sweeps,
                   delivered>>

(***************************************************************************)
(* EventHandler.handle_event called with one envelope                      *)
(***************************************************************************)
\* handle_event enters process_integration_event.
HandleEvent ==
    /\ disp["call"].pc = "idle"
    /\ hist.handled < MaxHandled
    /\ \E ev \in PayloadEnvelopes :
         disp' = [disp EXCEPT !["call"] = NewFrame(ev)]
    /\ hist' = [hist EXCEPT !.handled = @ + 1]
    /\ UNCHANGED <<odoo_connected, _tasks, sync_list, sync_results, db_path, max_retries, store, odoo, is_running, is_processing,
                   put_tasks, queue, unfinished, wpc, opc, spc, transports_on,
                   pending_list, batch, batches, sweep_list, sweep_results, sweeps,
                   delivered>>

\* process_integration_event returned: the result is logged.
HandleEventDone ==
    /\ disp["call"].pc = "ret"
    /\ disp' = [disp EXCEPT !["call"] = IdleFrame]
    /\ hist' = Returned("call")
    /\ UNCHANGED <<odoo_connected, _tasks, sync_list, sync_results, db_path, max_retries, store, odoo, is_running, is_processing,
                   put_tasks, queue, unfinished, wpc, opc, spc, transports_on,
                   pending_list, batch, batches, sweep_list, sweep_results, sweeps,
                   delivered>>

(***************************************************************************)
(* Ingestion queue and worker loop (EventHandler)                          *)
(***************************************************************************)
\* asyncio runs the queue_event tasks in the order the callbacks created them.
NextPutTask(tasks) == 1

LastPutTask(tasks) == Len(tasks)

RemoveAt(seq, i) == SubSeq(seq, 1, i - 1) \o SubSeq(seq, i + 1, Len(seq))

\* asyncio.Queue.get: the oldest item; <<item, rest>>.
QueueNewest(q) == <<q[Len(q)], SubSeq(q, 1, Len(q) - 1)>>

QueueGet(q) == <<Head(q), Tail(q)>>

\* A loop that ends with the first dispatch that did not succeed.
LoopEndsOnFailure(w) ==
    IF is_processing' /\ disp[w].success THEN "get" ELSE "exited"

\* The loop head, reached after start, a timeout or task_done.
LoopHead(w) == IF is_processing' THEN "get" ELSE "exited"

\* _handle_signalr_event/_handle_webhook_event: create_task(queue_event(event)).
Deliver ==
    /\ transports_on
    /\ delivered < MaxDeliveries
    /\ \E ev \in TransportEnvelopes :
         put_tasks' = Append(put_tasks, [event |-> ev, seq |-> delivered + 1])
    /\ delivered' = delivered + 1
    /\ UNCHANGED <<odoo_connected, _tasks, sync_list, sync_results, db_path, max_retries, store, odoo, disp, is_running, is_processing,
                   queue, unfinished, wpc, opc, spc, transports_on, pending_list,
                   batch, batches, sweep_list, sweep_results, sweeps, hist>>

\* queue_event: await self._processing_queue.put(event); the queue is unbounded.
QueueEvent ==
    /\ put_tasks # << >>
    /\ queue' = Append(queue, put_tasks[NextPutTask(put_tasks)])
    /\ put_tasks' = RemoveAt(put_tasks, NextPutTask(put_tasks))
    /\ unfinished' = unfinished + 1
    /\ UNCHANGED <<odoo_connected, _tasks, sync_list, sync_results, db_path, max_retries, store, odoo, disp, is_running, is_processing,
                   wpc, opc, spc, transports_on, pending_list, batch, batches,
                   sweep_list, sweep_results, sweeps, delivered, hist>>

\* start_processing up to the loop.
WorkerStart(w) ==
    /\ wpc[w] = "start"
    /\ is_processing' = TRUE
    /\ wpc' = [wpc EXCEPT ![w] = IF is_processing THEN "exited" ELSE "get"]
    /\ UNCHANGED <<odoo_connected, _tasks, sync_list, sync_results, db_path, max_retries, store, odoo, disp, is_running, put_tasks,
                   queue, unfinished, opc, spc, transports_on, pending_list, batch,
                   batches, sweep_list, sweep_results, sweeps, delivered, hist>>

\* wait_for(queue.get(), 1.0) returns an item; handle_event is entered.
WorkerGet(w) ==
    /\ wpc[w] = "get"
    /\ queue # << >>
    /\ queue' = QueueGet(queue)[2]
    /\ disp' = [disp EXCEPT ![w] = NewFrame(QueueGet(queue)[1].event)]
    /\ wpc' = [wpc EXCEPT ![w] = "handle"]
    /\ hist' = [hist EXCEPT !.wbegun = Append(@, QueueGet(queue)[1].seq),
                            !.wcur[w] = QueueGet(queue)[1].seq]
    /\ UNCHANGED <<odoo_connected, _tasks, sync_list, sync_results, db_path, max_retries, store, odoo, is_running, is_processing,
                   put_tasks, unfinished, opc, spc, transports_on, pending_list,
                   batch, batches, sweep_list, sweep_results, sweeps, delivered>>

\* asyncio.TimeoutError on an empty queue: continue, and the loop condition
\* is read again (a step only when the flag was cleared).
WorkerTimeout(w) ==
    /\ wpc[w] = "get"
    /\ queue = << >>
    /\ ~is_processing
    /\ wpc' = [wpc EXCEPT ![w] = "exited"]
    /\ UNCHANGED <<odoo_connected, _tasks, sync_list, sync_results, db_path, max_retries, store, odoo, disp, is_running, is_processing,
                   put_tasks, queue, unfinished, opc, spc, transports_on,
                   pending_list, batch, batches, sweep_list, sweep_results, sweeps,
                   delivered, hist>>

\* handle_event returned: task_done, then the loop condition.
WorkerTaskDone(w) ==
    /\ wpc[w] = "handle"
    /\ disp[w].pc = "ret"
    /\ unfinished' = unfinished - 1
    /\ disp' = [disp EXCEPT ![w] = IdleFrame]
    /\ UNCHANGED is_processing
    /\ wpc' = [wpc EXCEPT ![w] = LoopHead(w)]
    /\ hist' = [Returned(w) EXCEPT
                   !.wended = Append(@, hist.wcur[w]),
                   !.wfailed = IF disp[w].success THEN @ ELSE @ \cup {hist.wcur[w]},
                   !.wcur[w] = 0]
    /\ UNCHANGED <<odoo_connected, _tasks, sync_list, sync_results, db_path, max_retries, store, odoo, is_running, put_tasks, queue,
                   opc, spc, transports_on, pending_list, batch, batches, sweep_list,
                   sweep_results, sweeps, delivered>>

(***************************************************************************)
(* IntegrationOrchestrator: initialize, start, stop; process_pending_events *)
(***************************************************************************)
\* initialize(): the repository, the Odoo client and its connect(), the
\* service, the handlers and the transport clients.
\* A connect() that is taken to have succeeded whatever the server answered.
InitializeIgnoresConnect(connected) == "initialized"

\* initialize() returns False when connect() does, True otherwise.
initialize(connected) == IF connected THEN "initialized" ELSE "failed"

Initialize ==
    /\ opc = "new"
    /\ \E connected \in BOOLEAN :
         /\ opc' = initialize(connected)
         /\ odoo_connected' = connected
    /\ UNCHANGED <<_tasks, sync_list, sync_results, db_path, max_retries, store, odoo,
                   disp, is_running, is_processing, put_tasks, queue, unfinished, wpc,
                   spc, transports_on, pending_list, batch, batches, sweep_list,
                   sweep_results, sweeps, delivered, hist>>

\* The worker task a call of start() creates: the next one not yet created.
StartedWorkers == { w \in Workers : wpc[w] # "none" }

NextWorker == WorkerNames[Cardinality(StartedWorkers) + 1]

\* start() past its guard, up to its first suspension, inside
\* process_pending_events: the worker task is created, the transports are
\* connected and listening, the webhook server task is created.
StartBody ==
    /\ is_running' = TRUE
    /\ wpc' = [wpc EXCEPT ![NextWorker] = "start"]
    /\ _tasks' = _tasks \cup {NextWorker, "webhook"}
    /\ transports_on' = TRUE
    /\ opc' = "pending"

\* A record of a call that returned without starting or stopping anything.
Called(what) == [hist EXCEPT !.calls = @ + 1, !.last_call = what]

\* start() on an orchestrator that initialize() has set up.
Start ==
    /\ opc = "initialized"
    /\ ~is_running
    /\ StartBody
    /\ UNCHANGED <<odoo_connected, sync_list, sync_results, db_path, max_retries, store, odoo, disp,
                   is_processing, put_tasks, queue, unfinished, spc, pending_list,
                   batch, batches, sweep_list, sweep_results, sweeps, delivered, hist>>

\* start() after an earlier start() has returned and a stop() has cleared
\* is_running: the service exists, a new worker task is created.
StartAgain ==
    /\ opc = "running"
    /\ ~is_running
    /\ Cardinality(StartedWorkers) < MaxStarts
    /\ StartBody
    /\ UNCHANGED <<odoo_connected, sync_list, sync_results, db_path, max_retries, store, odoo, disp,
                   is_processing, put_tasks, queue, unfinished, spc, pending_list,
                   batch, batches, sweep_list, sweep_results, sweeps, delivered, hist>>

\* start() on a new orchestrator: is_running is set, initialize() is called;
\* when it returns False the exception clears is_running and is raised again.
StartInitializes ==
    /\ opc = "new"
    /\ ~is_running
    /\ \E connected \in BOOLEAN :
         /\ odoo_connected' = connected
         /\ IF initialize(connected) = "initialized"
            THEN /\ StartBody
                 /\ UNCHANGED hist
            ELSE /\ hist.calls < MaxCalls
                 /\ is_running' = FALSE
                 /\ hist' = Called("start_raised")
                 /\ UNCHANGED <<wpc, _tasks, transports_on, opc>>
    /\ UNCHANGED <<sync_list, sync_results, db_path, max_retries, store, odoo, disp,
                   is_processing, put_tasks, queue, unfinished, spc, pending_list,
                   batch, batches, sweep_list, sweep_results, sweeps, delivered>>

\* start() while is_running: a warning, and the call returns.
StartNoop ==
    /\ is_running
    /\ hist.calls < MaxCalls
    /\ hist' = Called("start_noop")
    /\ UNCHANGED <<odoo_connected, _tasks, sync_list, sync_results, db_path, max_retries,
                   store, odoo, disp, is_running, is_processing, put_tasks, queue,
                   unfinished, wpc, opc, spc, transports_on, pending_list, batch,
                   batches, sweep_list, sweep_results, sweeps, delivered>>


\* process_pending_events: EventRepositoryImpl().get_pending_events(limit=100),
\* a repository on the default database path; then handle_event of the first
\* event, up to its save.
PendingGet ==
    /\ opc = "pending"
    /\ \E l \in get_pending_events(store[DefaultDbPath], PageSize) :
         IF l = << >>
         THEN /\ opc' = "running"
              /\ UNCHANGED <<disp, pending_list>>
         ELSE /\ opc' = "catchup"
              /\ disp' = [disp EXCEPT !["main"] = NewFrame(Head(l))]
              /\ pending_list' = Tail(l)
    /\ hist' = [hist EXCEPT !.caught_up =
                   @ \cup { e.event_id : e \in
                              { x \in {disp'["main"].event} : opc' = "catchup" } }]
    /\ UNCHANGED <<odoo_connected, _tasks, sync_list, sync_results, db_path, max_retries, store, odoo, is_running, is_processing,
                   put_tasks, queue, unfinished, wpc, spc, transports_on, batch,
                   batches, sweep_list, sweep_results, sweeps, delivered>>

\* handle_event returned: processed_count += 1 and the next event, or the end
\* of process_pending_events and of start().
PendingNext ==
    /\ opc = "catchup"
    /\ disp["main"].pc = "ret"
    /\ hist' = [Returned("main") EXCEPT !.caught_up =
                   IF pending_list = << >> THEN @
                   ELSE @ \cup {Head(pending_list).event_id}]
    /\ IF pending_list = << >>
       THEN /\ opc' = "running"
            /\ disp' = [disp EXCEPT !["main"] = IdleFrame]
            /\ UNCHANGED pending_list
       ELSE /\ disp' = [disp EXCEPT !["main"] = NewFrame(Head(pending_list))]
            /\ pending_list' = Tail(pending_list)
            /\ UNCHANGED opc
    /\ UNCHANGED <<odoo_connected, _tasks, sync_list, sync_results, db_path, max_retries, store, odoo, is_running, is_processing,
                   put_tasks, queue, unfinished, wpc, spc, transports_on, batch,
                   batches, sweep_list, sweep_results, sweeps, delivered>>

\* Sequence numbers of the items put on the queue and not yet task_done.
Unprocessed ==
    { queue[i].seq : i \in DOMAIN queue } \cup
    { hist.wcur[w] : w \in { x \in Workers : wpc[x] = "handle" } }

\* A join that does not wait for the unfinished items.
JoinReturnsAtOnce(n) == TRUE

\* Queue.join(): returns once every item put has been marked task_done.
JoinReturns(n) == n = 0

\* A stop() that goes on although the orchestrator is not running.
StopIsNeverNoop(running) == FALSE

\* if not self.is_running: a warning, and the call returns.
StopIsNoop(running) == ~running

\* stop() past its guard, up to its first suspension: the flags are cleared,
\* and stop_processing waits in join() unless nothing is unfinished; then the
\* transports are stopped, up to the sleep in stop_server.
StopCall ==
    /\ spc \in {"idle", "returned"}
    /\ ~StopIsNoop(is_running)
    /\ is_running' = FALSE
    /\ is_processing' = FALSE
    /\ hist' = [hist EXCEPT !.stop_snapshot = Unprocessed,
                            !.stop_drained = JoinReturns(unfinished),
                            !.stop_was_running = is_running]
    /\ spc' = IF JoinReturns(unfinished) THEN "sleep" ELSE "join"
    /\ transports_on' = IF JoinReturns(unfinished) THEN FALSE ELSE transports_on
    /\ UNCHANGED <<odoo_connected, _tasks, sync_list, sync_results, db_path, max_retries,
                   store, odoo, disp, put_tasks, queue, unfinished, wpc, opc,
                   pending_list, batch, batches, sweep_list, sweep_results, sweeps,
                   delivered>>

\* stop() while is_running is false.
StopNoop ==
    /\ StopIsNoop(is_running)
    /\ hist.calls < MaxCalls
    /\ hist' = Called("stop_noop")
    /\ UNCHANGED <<odoo_connected, _tasks, sync_list, sync_results, db_path, max_retries,
                   store, odoo, disp, is_running, is_processing, put_tasks, queue,
                   unfinished, wpc, opc, spc, transports_on, pending_list, batch,
                   batches, sweep_list, sweep_results, sweeps, delivered>>

\* join() returns: stop_processing returns, the transports are stopped.
StopJoined ==
    /\ spc = "join"
    /\ JoinReturns(unfinished)
    /\ spc' = "sleep"
    /\ transports_on' = FALSE
    /\ hist' = [hist EXCEPT !.stop_drained = TRUE]
    /\ UNCHANGED <<odoo_connected, _tasks, sync_list, sync_results, db_path, max_retries, store, odoo, disp, is_running, is_processing,
                   put_tasks, queue, unfinished, wpc, opc, pending_list, batch,
                   batches, sweep_list, sweep_results, sweeps, delivered>>

\* The tasks of _tasks that are not done are cancelled and gathered, the list
\* is cleared, the Odoo client is disconnected. A cancelled worker leaves
\* handle_event where it was suspended.
StopCancel ==
    /\ spc = "sleep"
    /\ spc' = "returned"
    /\ wpc' = [w \in Workers |->
                 IF w \in _tasks /\ wpc[w] \in {"start", "get", "handle"}
                 THEN "cancelled" ELSE wpc[w]]
    /\ disp' = [t \in Tasks |-> IF t \in _tasks \cap Workers THEN IdleFrame ELSE disp[t]]
    /\ _tasks' = {}
    /\ odoo_connected' = FALSE
    /\ UNCHANGED <<sync_list, sync_results, db_path, max_retries, store, odoo,
                   is_running, is_processing, put_tasks, queue, unfinished, opc,
                   transports_on, pending_list, batch, batches, sweep_list,
                   sweep_results, sweeps, delivered, hist>>

\* get_status(): the flags are read; OdooClientImpl.is_connected() probes the
\* server when _connected is set and clears _connected when the probe raises.
GetStatus ==
    /\ hist.calls < MaxCalls
    /\ odoo_connected' \in IF odoo_connected THEN BOOLEAN ELSE {FALSE}
    /\ hist' = [Called("status") EXCEPT !.status =
                    [is_running |-> is_running, webhook_running |-> transports_on,
                     odoo_connected |-> odoo_connected', queue_size |-> Len(queue)]]
    /\ UNCHANGED <<_tasks, sync_list, sync_results, db_path, max_retries, store, odoo,
                   disp, is_running, is_processing, put_tasks, queue, unfinished, wpc,
                   opc, spc, transports_on, pending_list, batch, batches, sweep_list,
                   sweep_results, sweeps, delivered>>

(***************************************************************************)
(* SyncHandler.handle_retry_failed_events                                  *)
(***************************************************************************)
\* event.context.retry_count if event.context else 0
RetryCount(ev) == IF ev.has_context THEN ev.retry_count ELSE 0

\* if event.context: event.context.retry_count += 1
IncrementRetry(ev) == IF ev.has_context THEN [ev EXCEPT !.retry_count = @ + 1] ELSE ev

\* if retry_count >= max_retries: skipped
Exhausted(ev, limit) == RetryCount(ev) >= limit

\* EventRepositoryImpl().get_failed_events(limit=100), a repository on the
\* default database path, and the results dict.
SweepStart ==
    /\ ~sweep_results.active
    /\ sweeps < MaxSweeps
    /\ \E l \in get_failed_events(store[DefaultDbPath], PageSize) :
         /\ sweep_list' = l
         /\ sweep_results' = [active |-> TRUE, total |-> Len(l), success |-> 0,
                              failed |-> 0, skipped |-> 0]
    /\ sweeps' = sweeps + 1
    /\ hist' = [hist EXCEPT !.sweep_before = hist.sweep_dispatches, !.sweep_skipped = {}]
    /\ UNCHANGED <<odoo_connected, _tasks, sync_list, sync_results, db_path, max_retries, store, odoo, disp, is_running, is_processing,
                   put_tasks, queue, unfinished, wpc, opc, spc, transports_on,
                   pending_list, batch, batches, delivered>>

\* One iteration of the loop, up to the save inside process_integration_event.
SweepNext ==
    /\ sweep_results.active
    /\ disp["sweep"].pc = "idle"
    /\ sweep_list # << >>
    /\ LET ev == Head(sweep_list)
       IN  IF Exhausted(ev, max_retries)
           THEN /\ sweep_results' = [sweep_results EXCEPT !.skipped = @ + 1]
                /\ hist' = [hist EXCEPT !.sweep_skipped = @ \cup {ev.event_id}]
                /\ UNCHANGED disp
           ELSE /\ disp' = [disp EXCEPT !["sweep"] = NewFrame(IncrementRetry(ev))]
                /\ hist' = [hist EXCEPT !.sweep_dispatches[ev.event_id] = @ + 1]
                /\ UNCHANGED sweep_results
    /\ sweep_list' = Tail(sweep_list)
    /\ UNCHANGED <<odoo_connected, _tasks, sync_list, sync_results, db_path, max_retries, store, odoo, is_running, is_processing,
                   put_tasks, queue, unfinished, wpc, opc, spc, transports_on,
                   pending_list, batch, batches, sweeps, delivered>>

\* process_integration_event returned: results['success'] or results['failed'].
SweepTally ==
    /\ disp["sweep"].pc = "ret"
    /\ sweep_results' = IF disp["sweep"].success
                        THEN [sweep_results EXCEPT !.success = @ + 1]
                        ELSE [sweep_results EXCEPT !.failed = @ + 1]
    /\ hist' = [Returned("sweep") EXCEPT
                  !.sweep_succeeded = IF disp["sweep"].success
                                      THEN @ \cup {disp["sweep"].event.event_id}
                                      ELSE @]
    /\ disp' = [disp EXCEPT !["sweep"] = IdleFrame]
    /\ UNCHANGED <<odoo_connected, _tasks, sync_list, sync_results, db_path, max_retries, store, odoo, is_running, is_processing,
                   put_tasks, queue, unfinished, wpc, opc, spc, transports_on,
                   pending_list, batch, batches, sweep_list, sweeps, delivered>>

\* The loop is over: the results are returned.
SweepEnd ==
    /\ sweep_results.active
    /\ disp["sweep"].pc = "idle"
    /\ sweep_list = << >>
    /\ sweep_results' = [sweep_results EXCEPT !.active = FALSE]
    /\ UNCHANGED <<odoo_connected, _tasks, sync_list, sync_results, db_path, max_retries, store, odoo, disp, is_running, is_processing,
                   put_tasks, queue, unfinished, wpc, opc, spc, transports_on,
                   pending_list, batch, batches, sweep_list, sweeps, delivered, hist>>

(***************************************************************************)
(* SyncHandler.handle_full_sync                                            *)
(***************************************************************************)
\* The 'id' entries of the source records; None is a record without 'id'.
SourceRecordIds == {"P1", "P2", None}

\* The source system _create_sync_event gives its events.
ManualSync == [erp_name |-> <<"manual_sync">>, instance_id |-> <<"odoo_adapter">>]

\* f"sync_{entity_type.value}_{data.get('id', 'unknown')}_{int(now)}": the
\* records of one call are handled within one second of the clock, so the id
\* is one per 'id' entry; e1, e2 and e3 stand for the three strings.
SyncEventId(data_id) ==
    IF data_id = "P1" THEN "e1" ELSE IF data_id = "P2" THEN "e2" ELSE "e3"

\* A Sync envelope without context, its payload the record itself.
_create_sync_event(data_id) ==
    IntegrationEvent(SyncEventId(data_id), "Sync", ManualSync, data_id, FALSE, TRUE)

\* A tally that counts a failure without an errors entry.
TallyWithoutErrors(results, success, data_id, message) ==
    IF success
    THEN [results EXCEPT !.success = @ + 1]
    ELSE [results EXCEPT !.failed = @ + 1]

\* results['success'] += 1, or results['failed'] += 1 and one errors entry.
TallyResult(results, success, data_id, message) ==
    IF success
    THEN [results EXCEPT !.success = @ + 1]
    ELSE [results EXCEPT !.failed = @ + 1,
                         !.errors = Append(@, [record_id |-> data_id,
                                               error |-> message])]

\* handle_full_sync is called with a batch of source records: the results
\* dict is set up.
FullSyncStart ==
    /\ ~sync_results.active
    /\ \E n \in 0..MaxSyncRecords : \E data_batch \in [1..n -> SourceRecordIds] :
         /\ hist.sync_records + n <= MaxSyncRecords
         /\ sync_list' = data_batch
         /\ sync_results' = [active |-> TRUE, total |-> Len(data_batch), success |-> 0,
                             failed |-> 0, errors |-> << >>]
         /\ hist' = [hist EXCEPT !.sync_records = @ + n, !.sync_batch = data_batch,
                                 !.sync_events = << >>, !.sync_outcomes = << >>]
    /\ UNCHANGED <<odoo_connected, _tasks, db_path, max_retries, store, odoo, disp, is_running, is_processing,
                   put_tasks, queue, unfinished, wpc, opc, spc, transports_on,
                   pending_list, batch, batches, sweep_list, sweep_results, sweeps,
                   delivered>>

\* One iteration of the loop: the Sync event is made and
\* process_integration_event is entered, up to its save.
FullSyncNext ==
    /\ sync_results.active
    /\ disp["sync"].pc = "idle"
    /\ sync_list # << >>
    /\ disp' = [disp EXCEPT !["sync"] = NewFrame(_create_sync_event(Head(sync_list)))]
    /\ sync_list' = Tail(sync_list)
    /\ hist' = [hist EXCEPT !.sync_events =
                    Append(@, _create_sync_event(Head(sync_list)))]
    /\ UNCHANGED <<odoo_connected, _tasks, db_path, max_retries, store, odoo, is_running, is_processing,
                   put_tasks, queue, unfinished, wpc, opc, spc, transports_on,
                   pending_list, batch, batches, sweep_list, sweep_results, sweeps,
                   delivered, sync_results>>

\* process_integration_event returned: the result is tallied.
FullSyncTally ==
    /\ disp["sync"].pc = "ret"
    /\ sync_results' = TallyResult(sync_results, disp["sync"].success,
                                   disp["sync"].event.payload_id, disp["sync"].message)
    /\ hist' = [Returned("sync") EXCEPT !.sync_outcomes = Append(@, disp["sync"].success)]
    /\ disp' = [disp EXCEPT !["sync"] = IdleFrame]
    /\ UNCHANGED <<odoo_connected, _tasks, db_path, max_retries, store, odoo, is_running, is_processing,
                   put_tasks, queue, unfinished, wpc, opc, spc, transports_on,
                   pending_list, batch, batches, sweep_list, sweep_results, sweeps,
                   delivered, sync_list>>

\* The loop is over: the results are returned.
FullSyncEnd ==
    /\ sync_results.active
    /\ disp["sync"].pc = "idle"
    /\ sync_list = << >>
    /\ sync_results' = [sync_results EXCEPT !.active = FALSE]
    /\ UNCHANGED <<odoo_connected, _tasks, db_path, max_retries, store, odoo, disp, is_running, is_processing,
                   put_tasks, queue, unfinished, wpc, opc, spc, transports_on,
                   pending_list, batch, batches, sweep_list, sweep_results, sweeps,
                   delivered, sync_list, hist>>

(***************************************************************************)
(* SyncHandler.cleanup_old_events                                          *)
(***************************************************************************)
\* cutoff_date = datetime.now() - timedelta(days=days_old): a naive datetime.
Cutoffs == { [sec |-> s, micro |-> m, aware |-> FALSE] : s \in 1..3, m \in {0, 5} }

\* EventRepositoryImpl().cleanup_old_events(cutoff_date), a repository on the
\* default database path; the count is returned.
CleanupOldEvents ==
    /\ hist.cleanups < MaxCleanups
    /\ \E cutoff \in Cutoffs :
         LET r == cleanup_old_events(store[DefaultDbPath], cutoff)
         IN  /\ store' = [store EXCEPT ![DefaultDbPath] = r[1]]
             /\ hist' = [hist EXCEPT !.cleanups = @ + 1,
                                     !.cleanup_before = store[DefaultDbPath],
                                     !.cleanup_cutoff = cutoff,
                                     !.cleanup_count = r[2]]
    /\ UNCHANGED <<odoo_connected, _tasks, sync_list, sync_results, db_path, max_retries, odoo, disp, is_running, is_processing,
                   put_tasks, queue, unfinished, wpc, opc, spc, transports_on,
                   pending_list, batch, batches, sweep_list, sweep_results, sweeps,
                   delivered>>

(***************************************************************************)
(* Initial states and specifications                                       *)
(***************************************************************************)
InitHist(table) ==
    [last_saved |-> [id \in DOMAIN table |->
                        IF table[id] = << >> THEN NoEvent ELSE table[id][1].event],
     created |-> {}, registered |-> {}, create_done |-> {},
     wbegun |-> << >>, wended |-> << >>, wfailed |-> {},
     wcur |-> [w \in Workers |-> 0],
     calls |-> 0, last_call |-> "none", stop_was_running |-> FALSE,
     status |-> [is_running |-> FALSE, webhook_running |-> FALSE,
                 odoo_connected |-> FALSE, queue_size |-> 0],
     stop_snapshot |-> {}, stop_drained |-> FALSE,
     sweep_dispatches |-> [id \in DOMAIN table |-> 0],
     sweep_before |-> [id \in DOMAIN table |-> 0],
     sweep_skipped |-> {}, sweep_succeeded |-> {}, resaved |-> {},
     batch_report |-> [total |-> 0, success_count |-> 0, error_count |-> 0,
                       succeeded |-> 0],
     handled |-> 0, sync_records |-> 0, sync_batch |-> << >>, sync_events |-> << >>,
     sync_outcomes |-> << >>,
     initial |-> table, caught_up |-> {}, cleanups |-> 0, cleanup_before |-> table,
     cleanup_cutoff |-> [sec |-> 0, micro |-> 0, aware |-> FALSE], cleanup_count |-> 0]

\* The state after construction, over database files holding the tables st.
InitStore(tasks, path, retries, st) ==
    /\ db_path = path
    /\ max_retries = retries
    /\ store = st
    /\ odoo = EmptyOdoo
    /\ disp = [t \in tasks |-> IdleFrame]
    /\ is_running = FALSE
    /\ is_processing = FALSE
    /\ put_tasks = << >>
    /\ queue = << >>
    /\ unfinished = 0
    /\ wpc = [w \in Workers |-> "none"]
    /\ opc = "new"
    /\ spc = "idle"
    /\ transports_on = FALSE
    /\ pending_list = << >>
    /\ batch = 0
    /\ batches = 0
    /\ sweep_list = << >>
    /\ sweep_results = [active |-> FALSE, total |-> 0, success |-> 0, failed |-> 0,
                        skipped |-> 0]
    /\ sweeps = 0
    /\ delivered = 0
    /\ sync_list = << >>
    /\ sync_results = [active |-> FALSE, total |-> 0, success |-> 0, failed |-> 0,
                       errors |-> << >>]
    /\ odoo_connected = FALSE
    /\ _tasks = {}
    /\ hist = InitHist(st[path])

\* The file at the default path holds table, any other file is empty.
InitWith(tasks, path, retries, table) ==
    InitStore(tasks, path, retries,
              [p \in DbPaths |-> IF p = DefaultDbPath THEN table ELSE EmptyTable])

\* Batches submitted to a fresh pipeline.
InitBatch == InitWith({"b1", "b2"}, DefaultDbPath, 1, EmptyTable)

NextBatch ==
    \/ BatchSubmit
    \/ \E t \in {"b1", "b2"} : DSave(t)
    \/ \E t \in {"b1", "b2"} : DHandle(t)
    \/ \E t \in {"b1", "b2"} : DMark(t)
    \/ \E t \in {"b1", "b2"} : BatchTaskDone(t)
    \/ BatchGather

SpecBatch == InitBatch /\ [][NextBatch]_vars

\* The program of main.py on a fresh database at the default path:
\* initialize, start, the transports delivering, one stop.
Init == InitWith({"worker", "main"}, DefaultDbPath, 1, EmptyTable)

Next ==
    \/ Initialize
    \/ Start
    \/ PendingGet
    \/ PendingNext
    \/ Deliver
    \/ QueueEvent
    \/ WorkerStart("worker")
    \/ WorkerGet("worker")
    \/ WorkerTimeout("worker")
    \/ WorkerTaskDone("worker")
    \/ \E t \in {"worker", "main"} : DSave(t)
    \/ \E t \in {"worker", "main"} : DHandle(t)
    \/ \E t \in {"worker", "main"} : DMark(t)
    \/ StopCall
    \/ StopJoined
    \/ StopCancel

Spec == Init /\ [][Next]_vars

\* The same program under the scheduling of the asyncio event loop: a task
\* that is ready to run is run. The steps of the environment (a transport
\* delivering, the call of stop) are under no such condition.
Fairness ==
    /\ WF_vars(Start)
    /\ WF_vars(PendingGet)
    /\ WF_vars(PendingNext)
    /\ WF_vars(QueueEvent)
    /\ WF_vars(WorkerStart("worker"))
    /\ WF_vars(WorkerGet("worker"))
    /\ WF_vars(WorkerTimeout("worker"))
    /\ WF_vars(WorkerTaskDone("worker"))
    /\ \A t \in {"worker", "main"} :
           WF_vars(DSave(t)) /\ WF_vars(DHandle(t)) /\ WF_vars(DMark(t))
    /\ WF_vars(StopJoined)
    /\ WF_vars(StopCancel)

SpecFair == Init /\ [][Next]_vars /\ Fairness

\* The lifecycle operations called in any order, by concurrent callers, on an
\* orchestrator whose transports deliver nothing.
NextLifecycle ==
    \/ Initialize
    \/ Start
    \/ StartAgain
    \/ StartInitializes
    \/ StartNoop
    \/ PendingGet
    \/ \E w \in Workers : WorkerStart(w)
    \/ \E w \in Workers : WorkerTimeout(w)
    \/ StopCall
    \/ StopNoop
    \/ StopCancel
    \/ GetStatus

\* The worker tasks of every start() and the task that calls start().
InitLifecycle == InitWith(Workers \cup {"main"}, DefaultDbPath, 1, EmptyTable)

SpecLifecycle == InitLifecycle /\ [][NextLifecycle]_vars

\* handle_event called with envelopes of every entity kind on a fresh pipeline.
NextDispatch ==
    \/ HandleEvent
    \/ DSave("call")
    \/ DHandle("call")
    \/ DMark("call")
    \/ HandleEventDone

InitDispatch == InitWith({"call"}, DefaultDbPath, 1, EmptyTable)

SpecDispatch == InitDispatch /\ [][NextDispatch]_vars

\* Full syncs on a fresh pipeline.
NextFullSync ==
    \/ FullSyncStart
    \/ FullSyncNext
    \/ DSave("sync")
    \/ DHandle("sync")
    \/ DMark("sync")
    \/ FullSyncTally
    \/ FullSyncEnd

InitFullSync == InitWith({"sync"}, DefaultDbPath, 1, EmptyTable)

SpecFullSync == InitFullSync /\ [][NextFullSync]_vars

\* Retry sweeps over a database file at the default path that holds failed
\* rows: a Delete already retried once, an Update whose key is not registered,
\* both with a context, and a Create without source_system and without a context.
LeftFailed ==
    [EmptyTable EXCEPT !["e1"] = <<Row(IncrementRetry(EnvelopeList[8]), "failed")>>,
                       !["e2"] = <<Row(EnvelopeList[2], "failed")>>,
                       !["e3"] = <<Row(EnvelopeList[7], "failed")>>]

InitSweep ==
    \E path \in DbPaths, retries \in 1..MaxRetriesBound :
        InitWith({"sweep"}, path, retries, LeftFailed)

NextSweep ==
    \/ SweepStart
    \/ SweepNext
    \/ SweepTally
    \/ SweepEnd
    \/ DSave("sweep")
    \/ DHandle("sweep")
    \/ DMark("sweep")

SpecSweep == InitSweep /\ [][NextSweep]_vars

\* Repeated retry sweeps over a database file that holds one failed row below
\* its retry limit, the oldest, and n newer failed rows that have used up
\* their retries, n being one less than the page of get_failed_events or the
\* page itself.
ExhaustedRow(i, retries) ==
    Row([IntegrationEvent(ToString(i), "Delete", SourceSystem(ErpB), "P1", TRUE, TRUE)
            EXCEPT !.retry_count = retries, !.timestamp = i + 1],
        "failed")

LeftExhausted(n, retries) ==
    [id \in {"e1"} \cup { ToString(i) : i \in 1..n } |->
        IF id = "e1"
        THEN << Row(EnvelopeList[1], "failed") >>
        ELSE << ExhaustedRow(CHOOSE i \in 1..n : ToString(i) = id, retries) >>]

InitStarve ==
    \E n \in {PageSize - 1, PageSize} :
        InitWith({"sweep"}, DefaultDbPath, 1, LeftExhausted(n, 1))

\* The sweeps are run again and again, and each runs to its end.
SpecStarve == InitStarve /\ [][NextSweep]_vars /\ WF_vars(NextSweep)

\* Batches submitted to a pipeline whose database file holds the rows of
\* LeftFailed, among them the row of e1 with retry_count 1.
InitRerun == InitWith({"b1", "b2"}, DefaultDbPath, 1, LeftFailed)

SpecRerun == InitRerun /\ [][NextBatch]_vars

\* A start over the configured database file as an earlier run left it when it
\* ended between save and mark: rows in status 'pending' for some event_ids.
LeftPending ==
    { [id \in EventIds |->
         IF id \in ids
         THEN << Row(EnvelopeList[IF id = "e1" THEN 1 ELSE IF id = "e2" THEN 2 ELSE 4],
                     "pending") >>
         ELSE << >>] : ids \in SUBSET EventIds }

\* The event_ids that were 'pending' in the configured store before the start.
LeftPendingIds ==
    { id \in EventIds : \E i \in DOMAIN hist.initial[id] : hist.initial[id][i].status = "pending" }

InitRestart ==
    \E path \in DbPaths, table \in LeftPending :
        InitStore({"worker", "main"}, path, 1, [p \in DbPaths |-> IF p = path THEN table ELSE EmptyTable])

NextRestart ==
    \/ Initialize
    \/ Start
    \/ PendingGet
    \/ PendingNext
    \/ DSave("main")
    \/ DHandle("main")
    \/ DMark("main")

SpecRestart == InitRestart /\ [][NextRestart]_vars

\* Cleanups of a database file at the default path left by earlier runs: for
\* each event_id no row, or its row in one of the three statuses.
RowStatus == {"pending", "processed", "failed"}

LeftTables ==
    { [id \in EventIds |->
         IF st[id] = "absent" THEN << >>
         ELSE << Row(EnvelopeList[IF id = "e1" THEN 1 ELSE IF id = "e2" THEN 2 ELSE 4],
                     st[id]) >>] :
      st \in [EventIds -> RowStatus \cup {"absent"}] }

InitCleanup == \E table \in LeftTables : InitWith({"main"}, DefaultDbPath, 1, table)

NextCleanup == CleanupOldEvents

SpecCleanup == InitCleanup /\ [][NextCleanup]_vars

(***************************************************************************)
(* Properties                                                              *)
(***************************************************************************)
RowsOf(t) == store[db_path][disp[t].event.event_id]

Completed(t) == disp[t].pc \in {"ret", "done"}

\* C1: after every completed dispatch the stored record of the event is
\* 'processed' when the result is a success, and 'failed' with the failure
\* message as error_message when it is not.
C1_OutcomeIsRecorded ==
    \A t \in Tasks :
        Completed(t) =>
            /\ RowsOf(t) # << >>
            /\ \A i \in DOMAIN RowsOf(t) :
                 IF disp[t].success
                 THEN RowsOf(t)[i].status = "processed"
                 ELSE /\ RowsOf(t)[i].status = "failed"
                      /\ RowsOf(t)[i].error_message = disp[t].message

\* C2: an event whose dispatch always fails is re-dispatched by the retry
\* sweeps at most max_retries times in total, and every sweep that starts
\* after it has been retried max_retries times counts it as skipped.
C2_RetryBound ==
    \A id \in EventIds :
        id \notin hist.sweep_succeeded =>
            /\ hist.sweep_dispatches[id] <= max_retries
            /\ (sweeps > 0 /\ ~sweep_results.active /\ hist.sweep_before[id] >= max_retries)
                   => id \in hist.sweep_skipped

\* C3: when stop_processing has returned, every envelope that was on the queue
\* or being handled when stop was called has been dispatched by the worker.
C3_StopDrainsQueue ==
    hist.stop_drained =>
        hist.stop_snapshot \subseteq { hist.wended[i] : i \in DOMAIN hist.wended }

C3_Witness ==
    /\ hist.stop_drained
    /\ hist.stop_snapshot # {}
    /\ spc = "returned"

\* C4: however often the same Create envelope is dispatched, one target record
\* exists for its source record.
C4_OneRecordPerCreate ==
    \A c1 \in hist.created, c2 \in hist.created :
        ( /\ c1.event_type = "Create"
          /\ c2.event_type = "Create"
          /\ c1.event_id = c2.event_id
          /\ c1.source_system = c2.source_system
          /\ c1.payload_id = c2.payload_id
          /\ c1.record_id \in odoo.records
          /\ c2.record_id \in odoo.records ) => c1.record_id = c2.record_id

\* C5: an Update or Sync dispatched after a successful Create of the same
\* source record acts on the target record that Create produced (the connector
\* answering every call).
C5_CorrelationStable ==
    \A t \in Tasks :
        ( /\ Completed(t)
          /\ disp[t].event.event_type \in {"Update", "Sync"}
          /\ disp[t].prior # {}
          /\ disp[t].conn_ok ) =>
            /\ disp[t].success
            /\ disp[t].record_id \in disp[t].prior

\* C6: a key that set_external_id registered for a target record is resolved
\* by find_by_external_id to that record.
C6_RegisterThenResolve ==
    \A g \in hist.registered : g.record_id \in find_by_external_id(odoo, g.external_id)

\* C7: the worker dispatches the envelopes in the order the transports
\* delivered them, and a dispatch has completed before the next one begins.
C7_Fifo ==
    /\ \A i \in DOMAIN hist.wbegun : hist.wbegun[i] = i
    /\ Len(hist.wbegun) <= Len(hist.wended) + 1
    /\ \A i \in DOMAIN hist.wended : hist.wended[i] = hist.wbegun[i]

C7_Witness ==
    /\ Len(hist.wbegun) = 2
    /\ Len(hist.wended) = 2

\* C8: the store holds at most one row per event_id, and that row holds the
\* contents of the most recent save of the id.
C8_IdempotentSave ==
    \A id \in EventIds :
        /\ Len(store[db_path][id]) <= 1
        /\ \A i \in DOMAIN store[db_path][id] :
             store[db_path][id][i].event = hist.last_saved[id]

C8_Witness ==
    \E id \in hist.resaved :
        /\ Len(store[db_path][id]) = 1
        /\ store[db_path][id][1].event = hist.last_saved[id]

\* C9: in every dispatch the envelope has been saved as 'pending' before a
\* connector create, write or unlink is issued, and exactly one of
\* mark_event_as_processed and mark_event_as_failed has been called when the
\* dispatch returns.
C9_SaveThenEffectThenMark ==
    \A t \in Tasks :
        /\ disp[t].calls # {} => disp[t].saved
        /\ Completed(t) => disp[t].marks = 1

\* C10: a dispatch whose save_event failed issues no connector create, write
\* or unlink and does not report success; an envelope for which one was issued
\* has a row in the store.
C10_NoEffectWithoutRow ==
    \A t \in Tasks :
        /\ (disp[t].pc \in {"mark", "ret", "done"} /\ ~disp[t].saved) =>
               (disp[t].calls = {} /\ ~disp[t].success)
        /\ disp[t].calls # {} => RowsOf(t) # << >>

\* C11: once stop() has returned no dispatch is started, and the dispatch the
\* worker had in flight when stop() was called is not cancelled part-way.
C11_NoDispatchAfterStop ==
    [][ /\ spc = "returned" =>
             \A t \in Tasks : disp'[t].pc = "save" => disp'[t] = disp[t]
        /\ (spc # "returned" /\ spc' = "returned") =>
             ~ ( /\ wpc["worker"] = "handle"
                 /\ disp["worker"].pc \in {"save", "handle", "mark"}
                 /\ hist.wcur["worker"] \in hist.stop_snapshot ) ]_vars

PastHandle(t) == disp[t].pc \in {"mark", "ret", "done"}

\* C12: every correlation key is registered for at most one target record,
\* over the whole run.
C12_OneTargetPerKey ==
    \A g1 \in hist.registered, g2 \in hist.registered :
        g1.external_id = g2.external_id => g1.record_id = g2.record_id

\* C13: a dispatch that created a record and whose registration of the key
\* failed, or met a key that was registered already, does not return success.
C13_RegistrationSurfaced ==
    \A t \in Tasks :
        ( /\ PastHandle(t)
          /\ disp[t].made # 0
          /\ disp[t].event.source_system # NoSourceSystem
          /\ (~disp[t].registered \/ disp[t].dup_key) ) => ~disp[t].success

\* C14: the dispatches of a batch create at most one target record for the
\* same source record.
C14_ConcurrentCreates ==
    \A c1 \in hist.created, c2 \in hist.created :
        ( /\ c1.source_system # NoSourceSystem
          /\ c1.source_system = c2.source_system
          /\ c1.payload_id = c2.payload_id ) => c1.record_id = c2.record_id

\* C15: an Update or Delete whose key does not resolve returns success=False
\* with 'not found', issues no create, write or unlink, and leaves the
\* connector's records and registry as they were.
C15_StrictUpdateDelete ==
    \A t \in Tasks :
        ( /\ PastHandle(t)
          /\ disp[t].event.event_type \in {"Update", "Delete"}
          /\ disp[t].event.source_system # NoSourceSystem
          /\ disp[t].found = 0 ) =>
            /\ ~disp[t].success
            /\ disp[t].message = "not found"
            /\ disp[t].calls = {}
            /\ disp[t].made = 0
            /\ ~disp[t].changed

C15_Witness ==
    \E t \in Tasks :
        /\ Completed(t)
        /\ disp[t].event.event_type = "Delete"
        /\ disp[t].event.source_system # NoSourceSystem
        /\ disp[t].found = 0
        /\ odoo.records # {}

Before(t1, t2) == t1.sec < t2.sec \/ (t1.sec = t2.sec /\ t1.micro < t2.micro)

Deletable(r, cutoff) == r.status = "processed" /\ Before(Stamp(r.event.timestamp), cutoff)

\* C17: a cleanup deletes exactly the 'processed' rows with timestamp < cutoff,
\* returns their number, and leaves every other row as it was.
C17_CleanupScope ==
    hist.cleanups > 0 =>
        /\ \A id \in EventIds :
             store[DefaultDbPath][id] =
                 SelectSeq(hist.cleanup_before[id],
                           LAMBDA r : ~Deletable(r, hist.cleanup_cutoff))
        /\ hist.cleanup_count =
             Cardinality({ r \in AllRows(hist.cleanup_before) :
                             Deletable(r, hist.cleanup_cutoff) })

C17_Witness ==
    /\ hist.cleanups > 0
    /\ hist.cleanup_count > 0
    /\ \E r \in AllRows(store[DefaultDbPath]) :
         r.status # "processed" /\ Before(Stamp(r.event.timestamp), hist.cleanup_cutoff)
    /\ \E r \in AllRows(store[DefaultDbPath]) :
         r.status = "processed" /\ ~Before(Stamp(r.event.timestamp), hist.cleanup_cutoff)

\* C18: the retry_count stored for an event_id never decreases.
C18_RetryCountMonotonic ==
    [][ \A p \in DbPaths, id \in EventIds :
          \A i \in DOMAIN store[p][id], j \in DOMAIN store'[p][id] :
              RetryCount(store'[p][id][j].event) >= RetryCount(store[p][id][i].event) ]_vars

\* C19: an event the retry sweep counted as skipped has the stored status
\* 'skipped', so that get_failed_events no longer returns it.
C19_ExhaustedBecomeSkipped ==
    \A id \in hist.sweep_skipped :
        /\ \A i \in DOMAIN store[DefaultDbPath][id] :
             store[DefaultDbPath][id][i].status = "skipped"
        /\ \A l \in get_failed_events(store[DefaultDbPath], PageSize) :
             \A i \in DOMAIN l : l[i].event_id # id

\* C20: when start() has completed, every event that was 'pending' in the
\* configured store before the start has been dispatched by the catch-up and
\* is no longer 'pending'.
C20_PendingCatchUp ==
    opc = "running" =>
        \A id \in LeftPendingIds :
            /\ id \in hist.caught_up
            /\ \A i \in DOMAIN store[db_path][id] : store[db_path][id][i].status # "pending"

\* C21: a dispatch that returns failure or raises does not end the worker loop:
\* every envelope the worker has finished is acknowledged by exactly one
\* task_done, the queue's count of unfinished items is the envelopes queued
\* plus the one in dispatch, and the loop is left only once the processing
\* flag is cleared.
C21_WorkerSurvivesFailures ==
    /\ wpc["worker"] = "exited" => ~is_processing
    /\ unfinished = Len(queue) + Len(hist.wbegun) - Len(hist.wended)
    /\ \A s \in hist.wfailed :
           Cardinality({ i \in DOMAIN hist.wended : hist.wended[i] = s }) = 1

C21_Witness ==
    /\ 1 \in hist.wfailed
    /\ Len(hist.wbegun) = 2
    /\ is_processing

\* C22: in a batch, a dispatch that fails (miss, connector error or exception)
\* changes neither the frame of another dispatch of the batch nor the key
\* registrations the others resolve, and the batch ends only when every
\* dispatch of it has run to completion and made its one status update.
C22_BatchFailureIsolation ==
    [][ /\ \A t \in BatchTasks(batch) :
             (disp[t].pc = "handle" /\ disp'[t].pc = "mark" /\ ~disp'[t].success)
                 => /\ odoo'.imd = odoo.imd
                    /\ \A u \in BatchTasks(batch) \ {t} : disp'[u] = disp[u]
        /\ (batch > 0 /\ batch' = 0)
                 => \A t \in BatchTasks(batch) : disp[t].pc = "done" /\ disp[t].marks = 1
      ]_vars

C22_Witness ==
    /\ batch = 2
    /\ disp["b1"].pc = "done" /\ disp["b1"].success
    /\ disp["b2"].pc = "done" /\ disp["b2"].raised /\ ~disp["b2"].success

\* C23: the counts a batch ends with are truthful: success_count is the number
\* of envelopes whose dispatch returned success, error_count the number whose
\* dispatch returned failure or raised, and the two add up to the batch size.
C23_BatchCountsTruthful ==
    /\ hist.batch_report.success_count = hist.batch_report.succeeded
    /\ hist.batch_report.error_count =
           hist.batch_report.total - hist.batch_report.succeeded
    /\ hist.batch_report.success_count + hist.batch_report.error_count =
           hist.batch_report.total

\* C24: a full sync over N source records makes and dispatches one Sync
\* envelope per record, in order, whatever the earlier records' results, and
\* returns total = N, success + failed = N, success the number of successful
\* dispatches, and one errors entry per failed record, naming that record.
C24_FullSyncAccounting ==
    LET N == Len(hist.sync_batch)
        failedAt == { i \in DOMAIN hist.sync_outcomes : ~hist.sync_outcomes[i] }
    IN  /\ Len(hist.sync_events) <= N
        /\ \A i \in DOMAIN hist.sync_events :
               /\ hist.sync_events[i].event_type = "Sync"
               /\ hist.sync_events[i].payload_id = hist.sync_batch[i]
        /\ (~sync_results.active /\ hist.sync_records > 0)
               => /\ Len(hist.sync_events) = N
                  /\ Len(hist.sync_outcomes) = N
                  /\ sync_results.total = N
                  /\ sync_results.success + sync_results.failed = N
                  /\ sync_results.failed = Cardinality(failedAt)
                  /\ Len(sync_results.errors) = sync_results.failed
                  /\ \A k \in DOMAIN sync_results.errors :
                         \E i \in failedAt :
                             /\ Cardinality({ j \in failedAt : j <= i }) = k
                             /\ sync_results.errors[k].record_id = hist.sync_batch[i]

C24_Witness ==
    /\ ~sync_results.active
    /\ Len(hist.sync_batch) = 2
    /\ hist.sync_outcomes = <<FALSE, TRUE>>
    /\ Len(sync_results.errors) = 1

\* A step that is a call of the given kind returning without effect.
CallStep(what) == hist'.calls # hist.calls /\ hist'.last_call = what

\* The worker loops that are at their get or inside a dispatch.
ConsumingWorkers == { w \in Workers : wpc[w] \in {"get", "handle"} }

\* C25: a start() called while is_running is set creates no worker task,
\* starts no transport and runs no pending catch-up; and at no time is more
\* than one worker loop consuming the queue.
C25_StartNoopWhenRunning ==
    [][ /\ CallStep("start_noop") =>
             UNCHANGED <<wpc, _tasks, transports_on, opc, pending_list, disp,
                         is_running, is_processing>>
        /\ Cardinality(ConsumingWorkers') <= 1 ]_vars

\* C26: a stop() called while is_running is false (after a completed stop, or
\* before any start) changes neither the running flag, the queue, the task
\* list nor the connection state of the connector and the transports.
C26_StopIdempotent ==
    [][ (CallStep("stop_noop") \/ (~hist'.stop_was_running /\ spc' # spc)) =>
            UNCHANGED <<is_running, is_processing, queue, unfinished, _tasks,
                        odoo_connected, transports_on, wpc>> ]_vars

C26_Witness ==
    /\ hist.last_call = "stop_noop"
    /\ spc = "returned"
    /\ ~is_running
    /\ hist.stop_was_running

\* C27: when the connector's connect() returns False, initialize() fails, and
\* a start() that ran it raises with is_running false and with no worker
\* task, webhook task or transport started; after a failed initialize() of
\* the main program nothing is started at all.
C27_StartFailsClosed ==
    [][ /\ (opc = "new" /\ opc' = "initialized") => odoo_connected'
        /\ (opc = "new" /\ ~odoo_connected' /\ (opc' = "pending" \/ CallStep("start_raised")))
               => /\ CallStep("start_raised")
                  /\ ~is_running'
                  /\ StartedWorkers' = {}
                  /\ _tasks' = {}
                  /\ ~transports_on'
        /\ opc = "failed" => (opc' = "failed" /\ ~is_running' /\ StartedWorkers' = {}) ]_vars

C27_Witness ==
    /\ hist.last_call = "start_raised"
    /\ ~odoo_connected
    /\ ~is_running
    /\ opc = "new"

\* C28: get_status() changes neither the running flag, the queue, the event
\* store, the task list nor the connection state of the connector and the
\* transports.
C28_GetStatusReadOnly ==
    [][ CallStep("status") =>
            UNCHANGED <<is_running, queue, store, _tasks, odoo_connected,
                        transports_on>> ]_vars

\* A dispatch that has come back from _handle_event_by_type.
Dispatched(t) == disp[t].pc \in {"mark", "ret"}

\* C29: a dispatch of an envelope whose entity kind has no field-mapping table
\* (Shift, ZetaReport) returns success = false and issues no create, update
\* or delete call of the connector.
C29_UnmappedEntityFails ==
    \A t \in Tasks :
        (Dispatched(t) /\ get_field_mappings(disp[t].event.entity_type) = {}) =>
            ~disp[t].success /\ disp[t].calls = {}

\* C30: a dispatch of a Create or Sync envelope whose payload misses a field
\* the entity's mapping table marks required, or breaks a validation rule,
\* fails and issues no create or update call of the connector.
C30_ValidationPrecedesCall ==
    \A t \in Tasks :
        ( /\ Dispatched(t)
          /\ disp[t].event.event_type \in {"Create", "Sync"}
          /\ MissesRequired(disp[t].event) \/ ViolatesRule(disp[t].event) ) =>
            ~disp[t].success /\ disp[t].calls \cap {"create", "write"} = {}

\* An Update or Delete whose correlation key resolves to no record of the
\* connector o: "Record not found with external_id".
CorrelationMiss(o, ev) ==
    /\ ev.event_type \in {"Update", "Delete"}
    /\ ev.source_system # NoSourceSystem
    /\ find_by_external_id(o, FormatExternalId(ev.source_system, LookupKeyId(ev))) = {}

\* C31: an event that failed with a correlation miss (an Update or Delete on a
\* key the connector does not know) is never dispatched again by a retry
\* sweep, whatever its retry_count.
C31_PermanentNeverRetried ==
    \A id \in EventIds :
        \A i \in DOMAIN LeftFailed[id] :
            ( /\ LeftFailed[id][i].status = "failed"
              /\ CorrelationMiss(EmptyOdoo, LeftFailed[id][i].event) ) =>
                hist.sweep_dispatches[id] = 0

\* The table the sweeps, the pending catch-up and the cleanup read and write:
\* that of EventRepositoryImpl(), a repository on the default path.
SweepTable == store[DefaultDbPath]

\* The table process_integration_event writes through the orchestrator's
\* repository, the one on the configured path.
DispatchTable == store[db_path]

\* C32: for every configured database path, the rows the dispatch has
\* persisted are rows of the table the sweeps and the catch-up read: both
\* work on one event store.
C32_SharedStore == AllRows(DispatchTable) \subseteq AllRows(SweepTable)

\* C33: under fair scheduling a stop() that has been called returns, whatever
\* was waiting in the queue when the flags were cleared.
C33_StopTerminates == (spc \in {"join", "sleep"}) ~> (spc = "returned")

\* The task is inside process_integration_event.
InDispatch(t) == disp[t].pc \in {"save", "handle", "mark"}

\* C34: while start() runs the pending catch-up beside the worker loop, no
\* event_id is in dispatch by both at once: an envelope the worker has saved
\* and is still dispatching is not dispatched by process_pending_events too.
C34_NoDoubleDispatchAtStartup ==
    ~ ( /\ opc = "catchup"
        /\ wpc["worker"] = "handle"
        /\ InDispatch("worker")
        /\ InDispatch("main")
        /\ disp["worker"].event.event_id = disp["main"].event.event_id )

\* C35: a dispatch of a Create envelope that returns success=False, the case
\* of an envelope without source_system included, has created no target
\* record.
C35_FailedCreateLeavesNothing ==
    \A t \in Tasks :
        ( /\ PastHandle(t)
          /\ disp[t].event.event_type = "Create"
          /\ ~disp[t].success ) => disp[t].made = 0

\* The ir.model.data row that registers external_id for record_id is there.
RegisteredFor(o, external_id, record_id) ==
    [module |-> SplitExternalId(external_id).module,
     name |-> SplitExternalId(external_id).name,
     res_id |-> record_id] \in o.imd

\* C36: when a dispatch of a Create envelope, or of a Sync envelope whose key
\* did not resolve, has created a record and returns success=True, the
\* correlation key of the envelope is registered for that record.
C36_SuccessfulCreateRegistered ==
    \A t \in Tasks :
        ( /\ disp[t].pc = "mark"
          /\ disp[t].event.event_type \in {"Create", "Sync"}
          /\ disp[t].made # 0
          /\ disp[t].success ) =>
            RegisteredFor(odoo,
                          FormatExternalId(disp[t].event.source_system,
                              IF disp[t].event.event_type = "Create"
                              THEN CreateKeyId(disp[t].event)
                              ELSE LookupKeyId(disp[t].event)),
                          disp[t].made)

\* The event_ids whose stored row was 'failed' and below the retry limit
\* before the first sweep.
Retryable ==
    { id \in DOMAIN hist.initial :
        \E i \in DOMAIN hist.initial[id] :
            /\ hist.initial[id][i].status = "failed"
            /\ ~Exhausted(hist.initial[id][i].event, max_retries) }

\* C37: under repeated retry sweeps every stored failed event below its retry
\* limit is eventually dispatched again, also when the newer failed events
\* that have used up their retries fill a page of get_failed_events.
C37_NoStarvation == <>(\A id \in Retryable : hist.sweep_dispatches[id] > 0)

\* C38: a stored record whose status is 'processed' keeps that status for as
\* long as it is stored: no step returns it to 'pending' or 'failed' (the
\* cleanup sweep may delete it).
C38_ProcessedIsTerminal ==
    [][\A p \in DbPaths : \A id \in DOMAIN store[p] :
          (\E i \in DOMAIN store[p][id] : store[p][id][i].status = "processed")
              => \A j \in DOMAIN store'[p][id] : store'[p][id][j].status = "processed"]_vars

\* The worker loop has taken the envelope of delivery s from the queue and
\* called handle_event on it, which saves it and dispatches it.
TakenUp(s) == \E i \in DOMAIN hist.wbegun : hist.wbegun[i] = s

\* C39: under fair scheduling every envelope a transport has handed to the
\* orchestrator while it was connected is eventually taken up by a dispatch,
\* which persists it, also when it was handed over after stop() had cleared
\* the flag of the worker loop.
C39_NoEnvelopeLost ==
    \A s \in 1..MaxDeliveries : (delivered >= s) ~> TakenUp(s)

\* C40: the Sync envelopes one handle_full_sync call has made so far have
\* pairwise distinct event_ids, those of records without 'id' included, and
\* the envelopes of records with different 'id' entries have different
\* correlation keys.
C40_FullSyncDistinctEvents ==
    \A i, j \in DOMAIN hist.sync_events :
        i # j =>
            /\ hist.sync_events[i].event_id # hist.sync_events[j].event_id
            /\ hist.sync_batch[i] # hist.sync_batch[j] =>
                   FormatExternalId(hist.sync_events[i].source_system,
                                    LookupKeyId(hist.sync_events[i]))
                     # FormatExternalId(hist.sync_events[j].source_system,
                                        LookupKeyId(hist.sync_events[j]))

====
